---- MODULE Spec2Model ----
(***************************************************************************)
(* Ordering of lists and cards in the Trello clone: the card move and list *)
(* reorder endpoints, card creation, and the position utility.             *)
(*                                                                         *)
(* The persistent store is the pair (cards, lists).  Positions are the     *)
(* Int columns of the Card and List tables.                                *)
(***************************************************************************)
EXTENDS Integers, Sequences, FiniteSets, TLC

(***************************************************************************)
(* Bounds of the model and the fixed population of the store.              *)
(***************************************************************************)
MaxPos == 2

Boards == {"B1", "B2"}
ListIds == {"L1", "L2", "L3"}
NoList == "L0"
CardIds == {"c1", "c2", "c3", "c4", "c5"}
Users == {"u1"}
NoUser == "anon"

\* BoardMember rows: u1 belongs to B1 and not to B2.
BoardMembers == [b \in Boards |-> IF b = "B1" THEN {"u1"} ELSE {}]

VARIABLES
    cards,      \* Card table: id -> [listId, position], for the existing cards
    lists,      \* List table: id -> [boardId, position]
    resp,       \* what the last request run to completion did
    cardsB,     \* SpecPair: the Card table of the replay in the other order
    pair,       \* SpecPair: the two requests and how far each replay is
    reqs,       \* SpecConc: the requests in flight, each with what it has read
    txs,        \* SpecLock: the open transactions, their row locks and writes
    alloc,      \* SpecAlloc: the last call of calculateNewPosition and the keys
    drag,       \* SpecDrag: the orders before the last drops, for comparison
    sock,       \* SpecSocket: the socket.io server, its rooms and its clients
    client,     \* SpecClient: the board store of one browser and its requests
    util,       \* SpecItems: the arguments and result of an array utility
    hook,       \* SpecHook: the state of useDragAndDrop during a drag
    board,      \* SpecKanban: the columns of KanbanBoard and its drag state
    sync,       \* SpecSync: the browsers of a board and the events on their way
    link        \* SpecLink: the socket of one browser and the server's room

vars == <<cards, lists, resp, cardsB, pair, reqs, txs, alloc, drag, sock, client,
          util, hook, board, sync, link>>

\* the value of a variable that a specification does not use
Unused == <<>>

(***************************************************************************)
(* Queries on the store.                                                   *)
(***************************************************************************)
CardsOf(cs, l) == {c \in DOMAIN cs : cs[c].listId = l}

ListsOf(ls, b) == {l \in DOMAIN ls : ls[l].boardId = b}

\* list.board.members filtered by the session's user id is non-empty
IsBoardMember(u, l) == u \in BoardMembers[lists[l].boardId]

\* no two cards of a list, and no two lists of a board, share a position
NoDupCards(cs) ==
    \A c, d \in DOMAIN cs :
        (c # d /\ cs[c].listId = cs[d].listId) => cs[c].position # cs[d].position

NoDupLists(ls) ==
    \A l, m \in DOMAIN ls :
        (l # m /\ ls[l].boardId = ls[m].boardId) => ls[l].position # ls[m].position

\* the position-sorted order of a list, as the pairs (c, d) with c before d
OrderOf(cs, l) ==
    {p \in CardsOf(cs, l) \X CardsOf(cs, l) : cs[p[1]].position < cs[p[2]].position}

\* What the checks record of the last request: the HTTP status and, of a
\* request that went through, the operation, the card moved and whether the
\* session's user belongs to the boards of the source and destination list.
NoResp == [op |-> "none", status |-> 0, item |-> "none",
           srcMember |-> FALSE, dstMember |-> FALSE]

(***************************************************************************)
(* PATCH /api/cards/[id]/move: the statements of the transaction.          *)
(***************************************************************************)
\* ShiftSameList with the "moving down" range cut short of newPosition (lt for lte)
ShiftSameList_ExclusiveEnd(cs, l, sp, np) ==
    [c \in DOMAIN cs |->
        IF np > sp /\ cs[c].listId = l /\ cs[c].position > sp /\ cs[c].position < np
            THEN [cs[c] EXCEPT !.position = @ - 1]
        ELSE IF np < sp /\ cs[c].listId = l /\ cs[c].position >= np /\ cs[c].position < sp
            THEN [cs[c] EXCEPT !.position = @ + 1]
        ELSE cs[c]]

\* same list: the updateMany of the "moving down" or "moving up" branch
ShiftSameList(cs, l, sp, np) ==
    [c \in DOMAIN cs |->
        IF np > sp /\ cs[c].listId = l /\ cs[c].position > sp /\ cs[c].position <= np
            THEN [cs[c] EXCEPT !.position = @ - 1]
        ELSE IF np < sp /\ cs[c].listId = l /\ cs[c].position >= np /\ cs[c].position < sp
            THEN [cs[c] EXCEPT !.position = @ + 1]
        ELSE cs[c]]

\* other list: first updateMany, closing the gap in the source list
ShiftSourceList(cs, src, sp) ==
    [c \in DOMAIN cs |->
        IF cs[c].listId = src /\ cs[c].position > sp
            THEN [cs[c] EXCEPT !.position = @ - 1]
            ELSE cs[c]]

\* ShiftDestinationList leaving the card at newPosition in place (gt for gte)
ShiftDestinationList_Exclusive(cs, dst, np) ==
    [c \in DOMAIN cs |->
        IF cs[c].listId = dst /\ cs[c].position > np
            THEN [cs[c] EXCEPT !.position = @ + 1]
            ELSE cs[c]]

\* other list: second updateMany, opening a gap in the destination list
ShiftDestinationList(cs, dst, np) ==
    [c \in DOMAIN cs |->
        IF cs[c].listId = dst /\ cs[c].position >= np
            THEN [cs[c] EXCEPT !.position = @ + 1]
            ELSE cs[c]]

\* UpdateCard writing the position and leaving the card in its list
UpdateCard_PositionOnly(cs, id, dst, np) ==
    [cs EXCEPT ![id].position = np]

\* tx.card.update of the moved card
UpdateCard(cs, id, dst, np) ==
    [cs EXCEPT ![id] = [listId |-> dst, position |-> np]]

\* the whole transaction, given the listId and position read before it
MoveTx(cs, id, src, sp, dst, np) ==
    UpdateCard(
        IF src = dst
            THEN ShiftSameList(cs, src, sp, np)
            ELSE ShiftDestinationList(ShiftSourceList(cs, src, sp), dst, np),
        id, dst, np)

\* the transaction throws and rolls back: the card row is gone (update of a
\* missing record) or the destination list does not exist (foreign key)
MoveTxFails(cs, id, dst) == id \notin DOMAIN cs \/ dst \notin ListIds

\* the status the handler answers with, in the order of its checks
MoveStatus(cs, actor, id, dst, np) ==
    IF actor = NoUser THEN 401
    ELSE IF np < 0 THEN 400
    ELSE IF id \notin DOMAIN cs THEN 404
    ELSE IF ~IsBoardMember(actor, cs[id].listId) THEN 403
    ELSE IF MoveTxFails(cs, id, dst) THEN 500
    ELSE 200

\* MoveResult running the transaction whatever the checks answered
MoveResult_Unchecked(cs, actor, id, dst, np) ==
    IF id \in DOMAIN cs /\ dst \in ListIds
        THEN MoveTx(cs, id, cs[id].listId, cs[id].position, dst, np)
        ELSE cs

\* the Card table after the handler has run to completion on cs
MoveResult(cs, actor, id, dst, np) ==
    IF MoveStatus(cs, actor, id, dst, np) = 200
        THEN MoveTx(cs, id, cs[id].listId, cs[id].position, dst, np)
        ELSE cs

\* positions stay inside the modelled range
InRange(cs) == \A c \in DOMAIN cs : cs[c].position \in 0..MaxPos

\* The handler run to completion.
MoveCard(actor, id, dst, np) ==
    /\ cards' = MoveResult(cards, actor, id, dst, np)
    /\ InRange(cards')
    /\ LET st == MoveStatus(cards, actor, id, dst, np)
       IN  resp' = IF st = 200
                      THEN [op |-> "move", status |-> st, item |-> id,
                            srcMember |-> IsBoardMember(actor, cards[id].listId),
                            dstMember |-> IsBoardMember(actor, dst)]
                      ELSE [NoResp EXCEPT !.status = st]
    /\ UNCHANGED lists

(***************************************************************************)
(* PATCH /api/lists/[id]/reorder.                                          *)
(***************************************************************************)
\* the updateMany of the "moving down" or "moving up" branch
ShiftLists(ls, b, op, np) ==
    [l \in DOMAIN ls |->
        IF np > op /\ ls[l].boardId = b /\ ls[l].position > op /\ ls[l].position <= np
            THEN [ls[l] EXCEPT !.position = @ - 1]
        ELSE IF np < op /\ ls[l].boardId = b /\ ls[l].position >= np /\ ls[l].position < op
            THEN [ls[l] EXCEPT !.position = @ + 1]
        ELSE ls[l]]

\* prisma.list.update of the moved list
UpdateList(ls, id, np) == [ls EXCEPT ![id].position = np]

ReorderStatus(actor, id, np) ==
    IF actor = NoUser THEN 401
    ELSE IF np < 0 THEN 400
    ELSE IF id \notin DOMAIN lists THEN 404
    ELSE IF ~IsBoardMember(actor, id) THEN 403
    ELSE 200

ListsInRange(ls) == \A l \in DOMAIN ls : ls[l].position \in 0..MaxPos

\* The handler run to completion.
ReorderList(actor, id, np) ==
    /\ lists' = IF ReorderStatus(actor, id, np) = 200
                    THEN UpdateList(ShiftLists(lists, lists[id].boardId,
                                               lists[id].position, np), id, np)
                    ELSE lists
    /\ ListsInRange(lists')
    /\ resp' = IF ReorderStatus(actor, id, np) = 200
                  THEN [NoResp EXCEPT !.op = "reorder", !.status = 200]
                  ELSE [NoResp EXCEPT !.status = ReorderStatus(actor, id, np)]
    /\ UNCHANGED cards

(***************************************************************************)
(* Spec: the two handlers, each run to completion, one request at a time.  *)
(***************************************************************************)
InitCards ==
    [c \in {"c1", "c2", "c3"} |->
        IF c = "c1" THEN [listId |-> "L1", position |-> 0]
        ELSE IF c = "c2" THEN [listId |-> "L1", position |-> 1]
        ELSE [listId |-> "L2", position |-> 0]]

InitLists ==
    [l \in ListIds |->
        IF l = "L1" THEN [boardId |-> "B1", position |-> 0]
        ELSE IF l = "L2" THEN [boardId |-> "B1", position |-> 1]
        ELSE [boardId |-> "B2", position |-> 0]]

seqUnused == <<cardsB, pair, reqs, txs, alloc, drag, sock, client,
    util, hook, board, sync, link>>

Init ==
    /\ cards = InitCards
    /\ lists = InitLists
    /\ resp = NoResp
    /\ util = Unused
    /\ hook = Unused
    /\ board = Unused
    /\ sync = Unused
    /\ link = Unused
    /\ drag = Unused
    /\ sock = Unused
    /\ client = Unused
    /\ cardsB = Unused
    /\ pair = Unused
    /\ reqs = Unused
    /\ txs = Unused
    /\ alloc = Unused

\* The requests tried: every well-formed request of a user on the cards and
\* lists of the store, and one request for each way a request is turned down
\* before it reads the positions (no session, a negative newPosition, an id
\* that names no row, a list of a board the user does not belong to).
MoveRequests ==
    (Users \X {"c1", "c2", "c3"} \X ListIds \X (0..MaxPos))
        \cup {<<NoUser, "c1", "L1", 0>>, <<"u1", "c1", "L1", -1>>,
              <<"u1", "c4", "L1", 0>>, <<"u1", "c1", NoList, 0>>}

ReorderRequests ==
    (Users \X {"L1", "L2"} \X (0..MaxPos))
        \cup {<<NoUser, "L1", 0>>, <<"u1", "L1", -1>>, <<"u1", NoList, 0>>,
              <<"u1", "L3", 0>>}

Next ==
    \/ \E r \in MoveRequests :
        MoveCard(r[1], r[2], r[3], r[4]) /\ UNCHANGED seqUnused
    \/ \E r \in ReorderRequests :
        ReorderList(r[1], r[2], r[3]) /\ UNCHANGED seqUnused

Spec == Init /\ [][Next]_vars

(***************************************************************************)
(* Properties of Spec.                                                     *)
(***************************************************************************)
MovedOk == resp.op = "move" /\ resp.status = 200

\* C1: after any sequence of card moves and list reorders, each run to
\* completion from a state with pairwise distinct sibling positions, no two
\* cards of a list and no two lists of a board share a position.
C1_DistinctSiblingPositions == NoDupCards(cards) /\ NoDupLists(lists)

\* a move was committed whose newPosition is larger than the number of cards
\* of the destination list
C1_Witness ==
    /\ MovedOk
    /\ cards[resp.item].position
          > Cardinality(CardsOf(cards, cards[resp.item].listId))

\* C4 (as claimed): a card move commits only if the session's user is a
\* member of the board of the destination list and of the source list.
C4_MoveNeedsMembershipOfBothBoards ==
    MovedOk => (resp.srcMember /\ resp.dstMember)

SiblingShift(cs, c, src, sp, dst, np) ==
    IF src = dst
        THEN IF cs[c].listId = src /\ sp < cs[c].position /\ cs[c].position <= np
                 THEN -1
             ELSE IF cs[c].listId = src /\ np <= cs[c].position /\ cs[c].position < sp
                 THEN 1
             ELSE 0
        ELSE IF cs[c].listId = src /\ cs[c].position > sp THEN -1
             ELSE IF cs[c].listId = dst /\ cs[c].position >= np THEN 1
             ELSE 0

DenseCards ==
    [c \in {"c1", "c2", "c3"} |->
        [listId |-> "L1",
         position |-> IF c = "c1" THEN 0 ELSE IF c = "c2" THEN 1 ELSE 2]]

PairInit ==
    /\ cards \in {DenseCards, InitCards}
    /\ cardsB = cards
    /\ lists = InitLists
    /\ resp = NoResp
    /\ util = Unused
    /\ hook = Unused
    /\ board = Unused
    /\ sync = Unused
    /\ link = Unused
    /\ drag = Unused
    /\ sock = Unused
    /\ client = Unused
    /\ reqs = Unused
    /\ txs = Unused
    /\ alloc = Unused
    /\ \E r1, r2 \in Users \X (DOMAIN cards) \X ListIds \X (0..MaxPos) :
        /\ r1[2] # r2[2]
        /\ cards[r1[2]].listId = cards[r2[2]].listId
        /\ pair = [first |-> r1, second |-> r2, list |-> cards[r1[2]].listId,
                   a |-> 0, b |-> 0, allOk |-> TRUE]

\* the next request of the replay first-then-second, run to completion
ReplayA ==
    /\ pair.a < 2
    /\ LET r == IF pair.a = 0 THEN pair.first ELSE pair.second
       IN  /\ cards' = MoveResult(cards, r[1], r[2], r[3], r[4])
           /\ pair' = [pair EXCEPT !.a = @ + 1,
                          !.allOk = @ /\ MoveStatus(cards, r[1], r[2], r[3], r[4]) = 200]
    /\ UNCHANGED <<lists, resp, cardsB, reqs, txs, alloc, drag, sock, client,
                 util, hook, board, sync, link>>

\* the next request of the replay second-then-first, run to completion
ReplayB ==
    /\ pair.b < 2
    /\ LET r == IF pair.b = 0 THEN pair.second ELSE pair.first
       IN  /\ cardsB' = MoveResult(cardsB, r[1], r[2], r[3], r[4])
           /\ pair' = [pair EXCEPT !.b = @ + 1,
                          !.allOk = @ /\ MoveStatus(cardsB, r[1], r[2], r[3], r[4]) = 200]
    /\ UNCHANGED <<lists, resp, cards, reqs, txs, alloc, drag, sock, client,
                 util, hook, board, sync, link>>

PairNext == ReplayA \/ ReplayB

SpecPair == PairInit /\ [][PairNext]_vars

PairDone == pair.a = 2 /\ pair.b = 2

\* C2 (as claimed): both requests succeed and the final position-sorted order
\* of the list is the same whichever of the two requests is processed first.
C2_SameOrderInBothArrivalOrders ==
    PairDone => (pair.allOk /\ OrderOf(cards, pair.list) = OrderOf(cardsB, pair.list))

\* C2 (amended): both requests succeed in both arrival orders; every card ends
\* in the same list in both; the card of the request processed last stands at
\* the list and position it asked for; positions stay pairwise distinct.
C2_BothSucceedLastMoveWins ==
    PairDone =>
        /\ pair.allOk
        /\ DOMAIN cards = DOMAIN cardsB
        /\ \A c \in DOMAIN cards : cards[c].listId = cardsB[c].listId
        /\ cards[pair.second[2]] = [listId |-> pair.second[3], position |-> pair.second[4]]
        /\ cardsB[pair.first[2]] = [listId |-> pair.first[3], position |-> pair.first[4]]
        /\ NoDupCards(cards) /\ NoDupCards(cardsB)

\* both replays are through, of two moves inside the list the cards were in
C2_Witness ==
    /\ PairDone
    /\ pair.allOk
    /\ pair.first[3] = pair.list /\ pair.second[3] = pair.list

(***************************************************************************)
(* SpecConc: request handlers running concurrently against the one store.  *)
(* A handler is a sequence of awaited database calls; each call, and the   *)
(* callback of prisma.$transaction as a whole, is one step on the          *)
(* committed store.  What a handler read in an earlier step it keeps in    *)
(* its local constants (reqs[r].src, .sp).                                 *)
(***************************************************************************)
Reqs == {"r1", "r2"}

IdleReq == [pc |-> "idle", op |-> "none", actor |-> NoUser, id |-> "none",
            dst |-> NoList, np |-> 0, src |-> NoList, sp |-> 0, status |-> 0,
            shifted |-> {}, stale |-> FALSE, tail |-> TRUE]

ConcInit ==
    /\ cards \in {DenseCards, InitCards}
    /\ lists = InitLists
    /\ resp = NoResp
    /\ util = Unused
    /\ hook = Unused
    /\ board = Unused
    /\ sync = Unused
    /\ link = Unused
    /\ drag = Unused
    /\ sock = Unused
    /\ client = Unused
    /\ cardsB = Unused
    /\ pair = Unused
    /\ txs = Unused
    /\ alloc = Unused
    /\ reqs = [r \in Reqs |-> IdleReq]

concUnused == <<resp, cardsB, pair, txs, alloc, drag, sock, client,
    util, hook, board, sync, link>>

\* card move: session, body and the findUnique of the card with its list,
\* board and members; sourceListId and sourcePosition are kept
MoveRead(r, actor, id, dst, np) ==
    /\ reqs[r].pc = "idle"
    /\ LET st == MoveStatus(cards, actor, id, dst, np)
           early == st \in {401, 400, 404, 403}
       IN  reqs' = [reqs EXCEPT ![r] =
                [@ EXCEPT !.op = "move", !.actor = actor, !.id = id, !.dst = dst,
                          !.np = np,
                          !.src = IF early THEN NoList ELSE cards[id].listId,
                          !.sp = IF early THEN 0 ELSE cards[id].position,
                          !.status = IF early THEN st ELSE 0,
                          !.pc = IF early THEN "done" ELSE "read"]]
    /\ UNCHANGED <<cards, lists>>

\* card move: the transaction, on the listId and position read before it
MoveCommit(r) ==
    /\ reqs[r].pc = "read" /\ reqs[r].op = "move"
    /\ LET q == reqs[r]
           fails == MoveTxFails(cards, q.id, q.dst)
       IN  /\ cards' = IF fails THEN cards
                       ELSE MoveTx(cards, q.id, q.src, q.sp, q.dst, q.np)
           /\ reqs' = [reqs EXCEPT ![r] =
                [@ EXCEPT !.pc = "done",
                          !.status = IF fails THEN 500 ELSE 200,
                          !.stale = ~fails /\
                              cards[q.id] # [listId |-> q.src, position |-> q.sp]]]
    /\ UNCHANGED lists

\* list reorder: session, body and the findUnique of the list; oldPosition
\* is kept
ReorderRead(r, actor, id, np) ==
    /\ reqs[r].pc = "idle"
    /\ LET st == ReorderStatus(actor, id, np)
       IN  reqs' = [reqs EXCEPT ![r] =
                [@ EXCEPT !.op = "reorder", !.actor = actor, !.id = id, !.np = np,
                          !.sp = IF st = 200 THEN lists[id].position ELSE 0,
                          !.status = IF st = 200 THEN 0 ELSE st,
                          !.pc = IF st = 200 THEN "read" ELSE "done"]]
    /\ UNCHANGED <<cards, lists>>

\* list reorder: the updateMany, a statement of its own outside any transaction
ReorderShift(r) ==
    /\ reqs[r].pc = "read" /\ reqs[r].op = "reorder"
    /\ LET q == reqs[r]
           new == ShiftLists(lists, lists[q.id].boardId, q.sp, q.np)
       IN  /\ lists' = new
           /\ reqs' = [reqs EXCEPT ![r] =
                [@ EXCEPT !.pc = "shifted",
                          !.shifted = {l \in DOMAIN lists : new[l] # lists[l]}]]
    /\ UNCHANGED cards

\* list reorder: the update of the list itself
ReorderUpdate(r) ==
    /\ reqs[r].pc = "shifted"
    /\ lists' = UpdateList(lists, reqs[r].id, reqs[r].np)
    /\ reqs' = [reqs EXCEPT ![r] =
            [@ EXCEPT !.pc = "done", !.status = 200, !.shifted = {}]]
    /\ UNCHANGED cards

\* card creation: the status of the checks before the count
CreateStatus(actor, l) ==
    IF actor = NoUser THEN 401
    ELSE IF l \notin DOMAIN lists THEN 404
    ELSE IF ~IsBoardMember(actor, l) THEN 403
    ELSE 201

\* the position of a card created without one: prisma.card.count of the list
NewCardPosition(cs, l) == Cardinality(CardsOf(cs, l))

\* card creation: the checks and the count; the position is kept
CreateRead(r, actor, l) ==
    /\ reqs[r].pc = "idle"
    /\ LET st == CreateStatus(actor, l)
       IN  reqs' = [reqs EXCEPT ![r] =
                [@ EXCEPT !.op = "create", !.actor = actor, !.dst = l,
                          !.np = IF st = 201 THEN NewCardPosition(cards, l) ELSE 0,
                          !.status = IF st = 201 THEN 0 ELSE st,
                          !.pc = IF st = 201 THEN "read" ELSE "done"]]
    /\ UNCHANGED <<cards, lists>>

\* card creation: prisma.card.create with a fresh id
CreateInsert(r) ==
    /\ reqs[r].pc = "read" /\ reqs[r].op = "create"
    /\ LET q == reqs[r]
           id == CHOOSE c \in CardIds : c \notin DOMAIN cards
       IN  /\ cards' = [c \in DOMAIN cards \cup {id} |->
                           IF c = id THEN [listId |-> q.dst, position |-> q.np]
                                     ELSE cards[c]]
           /\ reqs' = [reqs EXCEPT ![r] =
                [@ EXCEPT !.pc = "done", !.status = 201, !.id = id,
                          !.tail = \A c \in CardsOf(cards, q.dst) :
                                        cards[c].position < q.np]]
    /\ UNCHANGED lists

ConcNext ==
    \/ \E r \in Reqs, m \in Users \X {"c1", "c2", "c3"} \X ListIds \X (0..MaxPos) :
        MoveRead(r, m[1], m[2], m[3], m[4]) /\ UNCHANGED concUnused
    \/ \E r \in Reqs : MoveCommit(r) /\ UNCHANGED concUnused
    \/ \E r \in Reqs, m \in Users \X ListIds \X (0..MaxPos) :
        ReorderRead(r, m[1], m[2], m[3]) /\ UNCHANGED concUnused
    \/ \E r \in Reqs : ReorderShift(r) /\ UNCHANGED concUnused
    \/ \E r \in Reqs : ReorderUpdate(r) /\ UNCHANGED concUnused
    \/ \E r \in Reqs, m \in Users \X ListIds :
        CreateRead(r, m[1], m[2]) /\ UNCHANGED concUnused
    \/ \E r \in Reqs : CreateInsert(r) /\ UNCHANGED concUnused

SpecConc == ConcInit /\ [][ConcNext]_vars

\* C3 (as claimed): position changes of one reorder are applied atomically:
\* the store never holds the sibling shift of a list reorder or card move
\* without the moved item's own position.
C3_NoPartialReorderVisible ==
    \A r \in Reqs : reqs[r].shifted = {}

\* C5 (as claimed): a move whose card was moved by another request between
\* the endpoint's read and its transaction does not commit.
C5_StaleMoveNotCommitted ==
    \A r \in Reqs :
        (reqs[r].op = "move" /\ reqs[r].status = 200) => ~reqs[r].stale

\* C10 (as claimed): a newly created card gets a position strictly greater
\* than that of every card already in its list.
C10_NewCardAtTail ==
    \A r \in Reqs :
        (reqs[r].op = "create" /\ reqs[r].status = 201) => reqs[r].tail

\* C24: whatever the interleaving of the reads and transactions of two card
\* move requests, once both have committed no two cards of a list share a
\* position.
C24_ConcurrentMovesKeepDistinct ==
    (\A r \in Reqs : reqs[r].op = "move" /\ reqs[r].pc = "done" /\ reqs[r].status = 200)
        => NoDupCards(cards)

(***************************************************************************)
(* SpecLock: the statements of two card move transactions interleaved, on  *)
(* a store with row locks (PostgreSQL under Prisma, read committed).  An   *)
(* UPDATE locks each row it writes and keeps the lock until the            *)
(* transaction ends; a row locked by the other transaction makes the       *)
(* statement wait; the writes of a transaction are private until commit.   *)
(***************************************************************************)
Txs == {"t1", "t2"}

IdleTx == [pc |-> "idle", id |-> "none", src |-> NoList, sp |-> 0,
           dst |-> NoList, np |-> 0, stmt |-> 1, scanned |-> FALSE,
           todo |-> {}, locks |-> {}, writes |-> <<>>, status |-> 0]

LockInit ==
    /\ cards = InitCards
    /\ lists = InitLists
    /\ resp = NoResp
    /\ util = Unused
    /\ hook = Unused
    /\ board = Unused
    /\ sync = Unused
    /\ link = Unused
    /\ drag = Unused
    /\ sock = Unused
    /\ client = Unused
    /\ cardsB = Unused
    /\ pair = Unused
    /\ reqs = Unused
    /\ alloc = Unused
    /\ txs = [t \in Txs |-> IdleTx]

lockUnused == <<lists, resp, cardsB, pair, reqs, alloc, drag, sock, client,
    util, hook, board, sync, link>>

\* the statements of the transaction callback, in the order it awaits them
Statements(q) ==
    IF q.src = q.dst THEN <<"same", "card">> ELSE <<"source", "dest", "card">>

\* the Card table as the transaction sees it: committed rows under its own writes
View(q) ==
    [c \in DOMAIN cards |-> IF c \in DOMAIN q.writes THEN q.writes[c] ELSE cards[c]]

\* the table one statement of the transaction makes of the table v
StatementResult(kind, v, q) ==
    CASE kind = "same" -> ShiftSameList(v, q.src, q.sp, q.np)
      [] kind = "source" -> ShiftSourceList(v, q.src, q.sp)
      [] kind = "dest" -> ShiftDestinationList(v, q.dst, q.np)
      [] OTHER -> UpdateCard(v, q.id, q.dst, q.np)

\* the rows the current statement of q writes
Targets(q) ==
    LET v == View(q)
        new == StatementResult(Statements(q)[q.stmt], v, q)
    IN  {c \in DOMAIN v : new[c] # v[c]} \cup
            (IF Statements(q)[q.stmt] = "card" THEN {q.id} ELSE {})

\* the current statement has written its rows: on to the next, or to commit
Advance(q) ==
    IF q.todo # {} THEN q
    ELSE IF q.stmt = Len(Statements(q)) THEN [q EXCEPT !.pc = "commit"]
    ELSE [q EXCEPT !.stmt = @ + 1, !.scanned = FALSE]

LockedByOther(t, c) == \E u \in Txs \ {t} : c \in txs[u].locks

\* t waits for a row lock that u holds
WaitsFor(t, u) ==
    /\ txs[t].pc = "run" /\ txs[t].scanned
    /\ txs[t].todo \cap txs[u].locks # {}
    /\ \A c \in txs[t].todo : LockedByOther(t, c)

\* the handler has read the card; the transaction opens
TxBegin(t, id, dst, np) ==
    /\ txs[t].pc = "idle"
    /\ txs' = [txs EXCEPT ![t] =
            [@ EXCEPT !.pc = "run", !.id = id, !.src = cards[id].listId,
                      !.sp = cards[id].position, !.dst = dst, !.np = np]]
    /\ UNCHANGED cards

\* the current statement finds the rows of its where clause
TxScan(t) ==
    /\ txs[t].pc = "run" /\ ~txs[t].scanned
    /\ txs' = [txs EXCEPT ![t] =
            Advance([txs[t] EXCEPT !.scanned = TRUE, !.todo = Targets(txs[t])])]
    /\ UNCHANGED cards

\* the current statement locks one of its rows, which no other transaction
\* holds, looks at the row again and writes it
TxLockRow(t, c) ==
    /\ txs[t].pc = "run" /\ txs[t].scanned
    /\ c \in txs[t].todo
    /\ ~LockedByOther(t, c)
    /\ LET q == txs[t]
           v == View(q)
           new == StatementResult(Statements(q)[q.stmt], v, q)
       IN  txs' = [txs EXCEPT ![t] =
                Advance([q EXCEPT !.todo = @ \ {c},
                                  !.locks = @ \cup {c},
                                  !.writes = [d \in DOMAIN q.writes \cup {c} |->
                                                IF d = c THEN new[c] ELSE q.writes[d]]])]
    /\ UNCHANGED cards

\* commit: the writes become visible and the locks are released
TxCommit(t) ==
    /\ txs[t].pc = "commit"
    /\ cards' = View(txs[t])
    /\ txs' = [txs EXCEPT ![t] =
            [@ EXCEPT !.pc = "done", !.status = 200, !.locks = {}, !.writes = <<>>]]

\* the database finds the two transactions waiting for each other and
\* aborts one of them: its writes are dropped and the handler answers 500
TxDeadlockAbort(t) ==
    /\ \E u \in Txs \ {t} : WaitsFor(t, u) /\ WaitsFor(u, t)
    /\ txs' = [txs EXCEPT ![t] =
            [@ EXCEPT !.pc = "done", !.status = 500, !.locks = {}, !.writes = <<>>,
                      !.todo = {}]]
    /\ UNCHANGED cards

LockNext ==
    \/ \E t \in Txs, id \in DOMAIN cards, dst \in {"L1", "L2"}, np \in 0..MaxPos :
        TxBegin(t, id, dst, np) /\ UNCHANGED lockUnused
    \/ \E t \in Txs : TxScan(t) /\ UNCHANGED lockUnused
    \/ \E t \in Txs, c \in CardIds : TxLockRow(t, c) /\ UNCHANGED lockUnused
    \/ \E t \in Txs : TxCommit(t) /\ UNCHANGED lockUnused
    \/ \E t \in Txs : TxDeadlockAbort(t) /\ UNCHANGED lockUnused

SpecLock == LockInit /\ [][LockNext]_vars

\* C6 (as claimed): two concurrent cross-list moves between the same two
\* lists in opposite directions never wait for each other's row locks.
C6_NoDeadlockOnOppositeMoves ==
    \A t, u \in Txs :
        (/\ t # u
         /\ txs[t].src # txs[t].dst
         /\ txs[u].src = txs[t].dst /\ txs[u].dst = txs[t].src)
            => ~(WaitsFor(t, u) /\ WaitsFor(u, t))

(***************************************************************************)
(* SpecAlloc: calculateNewPosition on JavaScript numbers.                  *)
(*                                                                         *)
(* A number is an IEEE 754 double, held as [m, e] for m * 2^e with m odd   *)
(* (or m = 0, e = 0).  A double is a multiple of 2^-1074 and has at most   *)
(* 53 significant bits; the numbers of this model have short mantissas, so *)
(* the sums are exact and the one place a result is rounded is the halving *)
(* of an odd multiple of 2^-1074 (round half to even).                     *)
(***************************************************************************)
SubnormalBits == 1074
TailGap == 1000
DefaultPosition == 1000
MaxInserts == 1080

Null == [null |-> TRUE]

IsNull(x) == "null" \in DOMAIN x

RECURSIVE Normal(_, _)
Normal(m, e) ==
    IF m = 0 THEN [m |-> 0, e |-> 0]
    ELSE IF m % 2 = 0 THEN Normal(m \div 2, e + 1)
    ELSE [m |-> m, e |-> e]

RECURSIVE Pow2(_)
Pow2(n) == IF n = 0 THEN 1 ELSE 2 * Pow2(n - 1)

RECURSIVE BitLen(_)
BitLen(m) == IF m = 0 THEN 0 ELSE 1 + BitLen(m \div 2)

Num(i) == Normal(i, 0)

Abs(m) == IF m < 0 THEN 0 - m ELSE m

\* x + y, exact
Add(x, y) ==
    IF x.m = 0 THEN y
    ELSE IF y.m = 0 THEN x
    ELSE LET e == IF x.e < y.e THEN x.e ELSE y.e
         IN  Normal(x.m * Pow2(x.e - e) + y.m * Pow2(y.e - e), e)

\* x / 2, rounded to the nearest double, ties to even
Half(x) ==
    IF x.m = 0 THEN x
    ELSE IF x.e > 0 - SubnormalBits THEN [m |-> x.m, e |-> x.e - 1]
    ELSE LET k == (x.m - 1) \div 2
         IN  Normal(IF k % 2 = 0 THEN k ELSE k + 1, x.e)

\* x < y
Less(x, y) ==
    IF x.m <= 0 /\ y.m > 0 THEN TRUE
    ELSE IF x.m < 0 /\ y.m = 0 THEN TRUE
    ELSE IF x.m >= 0 /\ y.m <= 0 THEN FALSE
    ELSE LET hx == x.e + BitLen(Abs(x.m))
             hy == y.e + BitLen(Abs(y.m))
             e == IF x.e < y.e THEN x.e ELSE y.e
         IN  IF hx # hy THEN (IF x.m > 0 THEN hx < hy ELSE hy < hx)
             ELSE x.m * Pow2(x.e - e) < y.m * Pow2(y.e - e)

calculateNewPosition(beforePosition, afterPosition) ==
    IF IsNull(beforePosition) /\ ~IsNull(afterPosition)
        THEN Half(afterPosition)
    ELSE IF ~IsNull(beforePosition) /\ IsNull(afterPosition)
        THEN Add(beforePosition, Num(TailGap))
    ELSE IF ~IsNull(beforePosition) /\ ~IsNull(afterPosition)
        THEN Half(Add(beforePosition, afterPosition))
    ELSE Num(DefaultPosition)

\* the arguments tried: null and the integers -2..3
Positions == {Num(i) : i \in -2..3}

AllocInit ==
    /\ util = Unused
    /\ hook = Unused
    /\ board = Unused
    /\ sync = Unused
    /\ link = Unused
    /\ drag = Unused
    /\ sock = Unused
    /\ client = Unused
    /\ cards = Unused
    /\ lists = Unused
    /\ resp = Unused
    /\ cardsB = Unused
    /\ pair = Unused
    /\ reqs = Unused
    /\ txs = Unused
    /\ \E upper \in {Num(1), Num(DefaultPosition)} :
        alloc = [before |-> Null, after |-> Null, key |-> Num(DefaultPosition),
                 lower |-> Num(0), last |-> upper, keys |-> {Num(0), upper},
                 n |-> 0, fresh |-> TRUE]

allocUnused == <<cards, lists, resp, cardsB, pair, reqs, txs, drag, sock, client,
    util, hook, board, sync, link>>

\* one call of the function on arguments of the bounded set
Allocate(b, a) ==
    /\ alloc.n = 0
    /\ alloc' = [alloc EXCEPT !.before = b, !.after = a,
                              !.key = calculateNewPosition(b, a)]

\* one more insertion at the same midpoint: the key for the place between the
\* lower neighbour and the key inserted last, which joins the sibling keys
InsertAtMidpoint ==
    /\ alloc.n < MaxInserts
    /\ LET k == calculateNewPosition(alloc.lower, alloc.last)
       IN  alloc' = [alloc EXCEPT !.before = alloc.lower, !.after = alloc.last,
                                  !.key = k, !.last = k,
                                  !.keys = @ \cup {k}, !.n = @ + 1,
                                  !.fresh = k \notin alloc.keys]

AllocNext ==
    \/ \E b, a \in Positions \cup {Null} : Allocate(b, a) /\ UNCHANGED allocUnused
    \/ InsertAtMidpoint /\ UNCHANGED allocUnused

SpecAlloc == AllocInit /\ [][AllocNext]_vars

\* C8 (as claimed): the key calculateNewPosition returns lies strictly inside
\* the interval of the bounds that are present: below afterPosition alone,
\* above beforePosition alone, between the two when beforePosition is less
\* than afterPosition.
C8_KeyStrictlyInsideBounds ==
    /\ (IsNull(alloc.before) /\ ~IsNull(alloc.after))
            => Less(alloc.key, alloc.after)
    /\ (~IsNull(alloc.before) /\ IsNull(alloc.after))
            => Less(alloc.before, alloc.key)
    /\ (~IsNull(alloc.before) /\ ~IsNull(alloc.after)
            /\ Less(alloc.before, alloc.after))
            => (Less(alloc.before, alloc.key) /\ Less(alloc.key, alloc.after))

\* C9 (as claimed): no insertion of a run of insertions at the same midpoint
\* produces a key that a sibling already has.
C9_MidpointInsertsNeverDuplicate == alloc.fresh

(***************************************************************************)
(* SpecDrag: drops of the drag-and-drop hook, each followed by the move    *)
(* request it sends, run to completion.  The hook reads the lists as the   *)
(* server returns them, cards ordered by position.                         *)
(***************************************************************************)
DragLists == {"L1", "L2"}
DragCards == {"c1", "c2", "c3", "c4"}

RECURSIVE SortByPosition(_, _)
SortByPosition(cs, S) ==
    IF S = {} THEN <<>>
    ELSE LET m == CHOOSE c \in S : \A d \in S : cs[c].position <= cs[d].position
         IN  <<m>> \o SortByPosition(cs, S \ {m})

\* list.cards as fetched: orderBy position asc
CardSeq(cs, l) == SortByPosition(cs, CardsOf(cs, l))

\* Array.prototype.findIndex, zero-based, -1 when absent
FindIndex(seq, c) ==
    IF \E i \in 1..Len(seq) : seq[i] = c
        THEN (CHOOSE i \in 1..Len(seq) : seq[i] = c) - 1
        ELSE -1

\* splice(index, 1) of the element c
SpliceOut(seq, c) == SelectSeq(seq, LAMBDA x : x # c)

\* splice(start, 0, c): a start beyond the length appends
SpliceIn(seq, start, c) ==
    LET at == IF start > Len(seq) THEN Len(seq) ELSE start
    IN  SubSeq(seq, 1, at) \o <<c>> \o SubSeq(seq, at + 1, Len(seq))

NoDrag == [item |-> "none", from |-> NoList, to |-> NoList, newPosition |-> 0,
           before |-> <<>>, phase |-> "none", home |-> NoList, away |-> NoList,
           homeBefore |-> <<>>, awayBefore |-> <<>>]

DragInitCards ==
    [c \in DragCards |->
        IF c = "c1" THEN [listId |-> "L1", position |-> 0]
        ELSE IF c = "c2" THEN [listId |-> "L1", position |-> 1]
        ELSE IF c = "c3" THEN [listId |-> "L1", position |-> 2]
        ELSE [listId |-> "L2", position |-> 0]]

DragInit ==
    /\ cards = DragInitCards
    /\ lists = InitLists
    /\ drag = NoDrag
    /\ util = Unused
    /\ hook = Unused
    /\ board = Unused
    /\ sync = Unused
    /\ link = Unused
    /\ resp = Unused
    /\ cardsB = Unused
    /\ pair = Unused
    /\ reqs = Unused
    /\ txs = Unused
    /\ alloc = Unused
    /\ sock = Unused
    /\ client = Unused

dragUnused == <<lists, resp, cardsB, pair, reqs, txs, alloc, sock, client,
    util, hook, board, sync, link>>

\* the card sits between two cards of its list
HasBothNeighbours(cs, c) ==
    LET seq == CardSeq(cs, cs[c].listId)
    IN  FindIndex(seq, c) >= 1 /\ FindIndex(seq, c) + 2 <= Len(seq)

\* onCardMove: the PATCH request, and what is remembered of the drop
SendMove(c, dst, np) ==
    LET src == cards[c].listId
        out == /\ src # dst
               /\ np = 0
               /\ HasBothNeighbours(cards, c)
        back == /\ drag.phase = "out"
                /\ drag.item = c
                /\ dst = drag.home
                /\ src = drag.away
                /\ np = FindIndex(drag.homeBefore, c)
    IN  /\ src # dst \/ cards[c].position # np
        /\ cards' = MoveResult(cards, "u1", c, dst, np)
        /\ drag' = [item |-> c, from |-> src, to |-> dst, newPosition |-> np,
                    before |-> CardSeq(cards, dst),
                    phase |-> IF out THEN "out" ELSE IF back THEN "back" ELSE "none",
                    home |-> IF out THEN src ELSE IF back THEN drag.home ELSE NoList,
                    away |-> IF out THEN dst ELSE IF back THEN drag.away ELSE NoList,
                    homeBefore |-> IF out THEN CardSeq(cards, src)
                                   ELSE IF back THEN drag.homeBefore ELSE <<>>,
                    awayBefore |-> IF out THEN CardSeq(cards, dst)
                                   ELSE IF back THEN drag.awayBefore ELSE <<>>]

\* handleDragEnd, over.data.current.type = 'list'
DropOnList(c, l) == SendMove(c, l, Len(CardSeq(cards, l)))

\* handleDragEnd, over.data.current.type = 'card'
DropOnCard(c, o) ==
    /\ c # o
    /\ SendMove(c, cards[o].listId, FindIndex(CardSeq(cards, cards[o].listId), o))

DragNext ==
    \/ \E c \in DragCards, l \in DragLists : DropOnList(c, l) /\ UNCHANGED dragUnused
    \/ \E c, o \in DragCards : DropOnCard(c, o) /\ UNCHANGED dragUnused

SpecDrag == DragInit /\ [][DragNext]_vars

\* C11: a card dropped, inside its own list, on the place between two
\* neighbours leaves the list in the order it had with the card taken out
\* and put back in at that place; the other cards keep their relative order.
C11_SameListMoveReinserts ==
    (/\ drag.item # "none"
     /\ drag.from = drag.to
     /\ drag.newPosition >= 1
     /\ drag.newPosition < Len(SpliceOut(drag.before, drag.item)))
        => CardSeq(cards, drag.to)
               = SpliceIn(SpliceOut(drag.before, drag.item), drag.newPosition, drag.item)

\* C12: a card taken from between two cards of its list to the head of the
\* other list and dropped back between the same two cards leaves both lists
\* in the order they had before.
C12_RoundTripRestoresOrders ==
    drag.phase = "back"
        => /\ CardSeq(cards, drag.home) = drag.homeBefore
           /\ CardSeq(cards, drag.away) = drag.awayBefore

\* C25: after every sequence of drops, each sent with the newPosition that
\* handleDragEnd computes and committed by the card move endpoint, the
\* positions of the cards of every list are exactly 0..n-1.
C25_DropsKeepPositionsDense ==
    \A l \in DragLists :
        {cards[c].position : c \in CardsOf(cards, l)}
            = 0..(Cardinality(CardsOf(cards, l)) - 1)

(***************************************************************************)
(* SpecSocket: the socket.io server of initializeSocket.  A connection is  *)
(* one socket; the rooms are those of the default in-memory adapter.  Each *)
(* handler runs to completion; the callback of fetchSockets().then is a    *)
(* step of its own.                                                        *)
(***************************************************************************)
Conns == {"s1", "s2", "s3"}

\* fetchSockets promises whose callback has not run yet
MaxPending == 1

\* socket.handshake.auth.token of each connection ("missing": no token)
HandshakeTokens ==
    {[c \in Conns |-> IF c = "s3" THEN t ELSE "valid"] : t \in {"valid", "missing", "invalid"}}

\* the payloads clients send with card:moved and list:reordered
MovedData ==
    {[cardId |-> "c1", sourceListId |-> "L1", destListId |-> "L2", newPosition |-> 0]}

ReorderedData == {[listId |-> "L1", newPosition |-> 1]}

NoneDelivered == [c \in Conns |-> <<>>]

\* BroadcastTo without the exclusion of the sender: io.in(room).emit
BroadcastTo_IncludingSender(rooms, b, from, msg) ==
    [c \in Conns |-> IF c \in rooms[b] THEN <<msg>> ELSE <<>>]

\* socket.to(room).emit(msg): what each connection is sent
BroadcastTo(rooms, b, from, msg) ==
    [c \in Conns |-> IF c \in rooms[b] /\ c # from THEN <<msg>> ELSE <<>>]

\* socket.join(room) and socket.leave(room)
JoinRoom(rooms, b, c) == [rooms EXCEPT ![b] = @ \cup {c}]

LeaveRoom(rooms, b, c) == [rooms EXCEPT ![b] = @ \ {c}]

\* the socket is taken out of every room when its connection closes,
\* before the 'disconnect' event is emitted
LeaveAll(rooms, c) == [b \in DOMAIN rooms |-> rooms[b] \ {c}]

\* socket.rooms, restricted to the rooms named board:<id>
SocketRooms(rooms, c) == {b \in DOMAIN rooms : c \in rooms[b]}

\* io.in(room).fetchSockets(): the adapter collects the sockets in the call
FetchSockets(rooms, b) == rooms[b]

\* ActiveUsers with the filter on the socket's own id left out
ActiveUsers_Unfiltered(sockets, c) == sockets

\* sockets.filter((s) => s.id !== socket.id)
ActiveUsers(sockets, c) == sockets \ {c}

\* the authentication middleware letting every handshake through
Authenticated_AnyToken(token) == TRUE

\* io.use: next() without an error only for a token that verifies
Authenticated(token) == token = "valid"

NoLast == [ev |-> "none", from |-> "none", boardId |-> "none", room |-> {},
           rooms |-> {}, data |-> <<>>]

SocketInit ==
    /\ \E t \in HandshakeTokens :
        sock = [token |-> t,
                state |-> [c \in Conns |-> "connecting"],
                rooms |-> [b \in Boards |-> {}],
                pending |-> {},
                delivered |-> NoneDelivered,
                last |-> NoLast]
    /\ util = Unused
    /\ hook = Unused
    /\ board = Unused
    /\ sync = Unused
    /\ link = Unused
    /\ cards = Unused
    /\ lists = Unused
    /\ resp = Unused
    /\ cardsB = Unused
    /\ pair = Unused
    /\ reqs = Unused
    /\ txs = Unused
    /\ alloc = Unused
    /\ drag = Unused
    /\ client = Unused

socketUnused == <<cards, lists, resp, cardsB, pair, reqs, txs, alloc, drag, client,
    util, hook, board, sync, link>>

\* the handshake: the middleware, then the registration of the handlers
Connect(c) ==
    /\ sock.state[c] = "connecting"
    /\ sock' = [sock EXCEPT
           !.state[c] = IF Authenticated(sock.token[c]) THEN "authenticated" ELSE "refused",
           !.delivered = NoneDelivered,
           !.last = [NoLast EXCEPT !.ev = "connect", !.from = c]]

\* socket.on('board:join')
BoardJoin(c, b) ==
    /\ sock.state[c] = "authenticated"
    /\ ~\E p \in sock.pending : p.socket = c
    /\ Cardinality(sock.pending) < MaxPending
    /\ LET joined == JoinRoom(sock.rooms, b, c)
       IN  sock' = [sock EXCEPT
               !.rooms = joined,
               !.delivered = BroadcastTo(joined, b, c,
                                 [ev |-> "board:user-joined", data |-> c]),
               !.pending = @ \cup {[socket |-> c, boardId |-> b,
                                    sockets |-> FetchSockets(joined, b)]},
               !.last = [NoLast EXCEPT !.ev = "board:join", !.from = c, !.boardId = b,
                                       !.room = sock.rooms[b]]]

\* the callback of fetchSockets().then: socket.emit('board:active-users');
\* a packet for a socket that has disconnected is dropped
ActiveUsersEmit(p) ==
    /\ p \in sock.pending
    /\ sock' = [sock EXCEPT
           !.pending = @ \ {p},
           !.delivered = [NoneDelivered EXCEPT ![p.socket] =
                             IF sock.state[p.socket] = "authenticated"
                                 THEN <<[ev |-> "board:active-users",
                                         data |-> ActiveUsers(p.sockets, p.socket)]>>
                                 ELSE <<>>],
           !.last = [NoLast EXCEPT !.ev = "board:active-users", !.from = p.socket,
                                   !.boardId = p.boardId, !.room = p.sockets]]

\* socket.on('board:leave')
BoardLeave(c, b) ==
    /\ sock.state[c] = "authenticated"
    /\ LET left == LeaveRoom(sock.rooms, b, c)
       IN  sock' = [sock EXCEPT
               !.rooms = left,
               !.delivered = BroadcastTo(left, b, c,
                                 [ev |-> "board:user-left", data |-> c]),
               !.last = [NoLast EXCEPT !.ev = "board:leave", !.from = c, !.boardId = b,
                                       !.room = sock.rooms[b],
                                       !.rooms = SocketRooms(sock.rooms, c) \cap {b}]]

\* socket.on('card:moved') and socket.on('list:reordered')
Publish(c, b, ev, data) ==
    /\ sock.state[c] = "authenticated"
    /\ sock' = [sock EXCEPT
           !.delivered = BroadcastTo(sock.rooms, b, c, [ev |-> ev, data |-> data]),
           !.last = [NoLast EXCEPT !.ev = ev, !.from = c, !.boardId = b,
                                   !.room = sock.rooms[b], !.data = data]]

\* the messages of socket.rooms.forEach(room => socket.to(room).emit(msg))
RECURSIVE ToEachRoom(_, _, _, _)
ToEachRoom(rooms, S, from, msg) ==
    IF S = {} THEN NoneDelivered
    ELSE LET b == CHOOSE x \in S : TRUE
             rest == ToEachRoom(rooms, S \ {b}, from, msg)
         IN  [c \in Conns |-> BroadcastTo(rooms, b, from, msg)[c] \o rest[c]]

\* the connection closes: the socket leaves its rooms, then
\* socket.on('disconnect') runs over socket.rooms
Disconnect(c) ==
    /\ sock.state[c] = "authenticated"
    /\ LET left == LeaveAll(sock.rooms, c)
       IN  sock' = [sock EXCEPT
               !.state[c] = "disconnected",
               !.rooms = left,
               !.delivered = ToEachRoom(left, SocketRooms(left, c), c,
                                 [ev |-> "board:user-left", data |-> c]),
               !.last = [NoLast EXCEPT !.ev = "disconnect", !.from = c,
                                       !.rooms = SocketRooms(sock.rooms, c)]]

SocketNext ==
    \/ \E c \in Conns : Connect(c) /\ UNCHANGED socketUnused
    \/ \E c \in Conns, b \in Boards : BoardJoin(c, b) /\ UNCHANGED socketUnused
    \/ \E p \in sock.pending : ActiveUsersEmit(p) /\ UNCHANGED socketUnused
    \/ \E c \in Conns, b \in Boards : BoardLeave(c, b) /\ UNCHANGED socketUnused
    \/ \E c \in Conns, b \in Boards, d \in MovedData :
        Publish(c, b, "card:moved", d) /\ UNCHANGED socketUnused
    \/ \E c \in Conns, b \in Boards, d \in ReorderedData :
        Publish(c, b, "list:reordered", d) /\ UNCHANGED socketUnused
    \/ \E c \in Conns : Disconnect(c) /\ UNCHANGED socketUnused

SpecSocket == SocketInit /\ [][SocketNext]_vars

UserJoined(c) == [ev |-> "board:user-joined", data |-> c]

UserLeft(c) == [ev |-> "board:user-left", data |-> c]

\* C13: a card:moved or list:reordered event sent for a board reaches, once
\* each, the connections that are in the board's room at that time other
\* than the sender, and no other connection.
C13_PublishedToRoomExceptOriginator ==
    sock.last.ev \in {"card:moved", "list:reordered"}
        => \A c \in Conns :
              sock.delivered[c] =
                  IF c \in sock.last.room /\ c # sock.last.from
                      THEN <<[ev |-> sock.last.ev, data |-> sock.last.data]>>
                      ELSE <<>>

\* the sender is in the room with another connection, a third one is not
C13_Witness ==
    /\ sock.last.ev = "card:moved"
    /\ sock.last.from \in sock.last.room
    /\ \E c \in Conns \ {sock.last.from} : sock.delivered[c] # <<>>
    /\ \E c \in Conns : sock.state[c] = "authenticated" /\ c \notin sock.last.room

\* who is told of a join: the connections already in the room, once each
JoinNotifiesExistingMembers ==
    sock.last.ev = "board:join"
        => \A c \in Conns :
              sock.delivered[c] =
                  IF c \in sock.last.room /\ c # sock.last.from
                      THEN <<UserJoined(sock.last.from)>>
                      ELSE <<>>

C15_LeaverRemovedAndRoomNotified ==
    sock.last.ev \in {"board:leave", "disconnect"}
        => \A b \in sock.last.rooms :
              /\ sock.last.from \notin sock.rooms[b]
              /\ \A m \in sock.rooms[b] :
                    \E i \in 1..Len(sock.delivered[m]) :
                        sock.delivered[m][i] = UserLeft(sock.last.from)

\* what holds of every connection in every state
ConnectionStateInv ==
    \A c \in Conns :
        /\ sock.state[c] \in {"connecting", "refused", "disconnected"}
              => /\ SocketRooms(sock.rooms, c) = {}
                 /\ sock.delivered[c] = <<>>
        /\ sock.state[c] \in {"connecting", "refused"}
              => (sock.last.from = c => sock.last.ev = "connect")
        /\ sock.state[c] = "disconnected"
              => (sock.last.from = c
                     => sock.last.ev \in {"disconnect", "board:active-users"})
        /\ sock.token[c] # "valid" => sock.state[c] \in {"connecting", "refused"}

\* C17: a connection goes from connecting to authenticated (or is refused)
\* and from authenticated to disconnected, and nowhere else; with a missing
\* or invalid token it runs no join or publish handler; once disconnected
\* it is in no room, is sent nothing and runs no handler.
C17_ConnectionLifecycle ==
    [][/\ ConnectionStateInv'
       /\ \A c \in Conns :
             \/ sock'.state[c] = sock.state[c]
             \/ sock.state[c] = "connecting"
                    /\ sock'.state[c] \in {"authenticated", "refused"}
             \/ sock.state[c] = "authenticated" /\ sock'.state[c] = "disconnected"]_vars

\* a refused connection, a disconnected one, and an event sent to a room
C17_Witness ==
    /\ \E c \in Conns : sock.state[c] = "refused"
    /\ \E c \in Conns : sock.state[c] = "disconnected"
    /\ sock.last.ev = "card:moved"
    /\ sock.last.from \in sock.last.room

\* socket.user of a connection whose token verified: the user it decodes to
SocketUser(c) == "u1"

\* a card:moved or list:reordered event reaches somebody only when its
\* sender is in the room of the board it names
PublisherHasJoined ==
    (/\ sock.last.ev \in {"card:moved", "list:reordered"}
     /\ \E c \in Conns : sock.delivered[c] # <<>>)
        => sock.last.from \in sock.last.room

\* every connection in a board's room belongs to a member of the board
RoomHoldsBoardMembersOnly ==
    \A b \in Boards : \A c \in sock.rooms[b] : SocketUser(c) \in BoardMembers[b]

\* C28: a connection gets an event delivered to the members of a board's
\* room only if it has joined that room itself, and it is in a board's
\* room only if its user is a member of the board.
C28_RoomsIsolateBoards ==
    /\ PublisherHasJoined
    /\ RoomHoldsBoardMembersOnly

(***************************************************************************)
(* SpecRelay: the two PATCH handlers next to the socket handlers that      *)
(* relay card:moved and list:reordered.  Two connections are in the room   *)
(* of board B1.                                                            *)
(***************************************************************************)
RelayMoves ==
    {<<"u1", "c1", "L2", 0>>, <<"u1", "c1", "L1", 0>>, <<NoUser, "c1", "L2", 0>>}

RelayReorders == {<<"u1", "L1", 1>>, <<"u1", "L1", 0>>, <<NoUser, "L1", 1>>}

RelayInit ==
    /\ cards = InitCards
    /\ lists = InitLists
    /\ sock = [token |-> [c \in Conns |-> "valid"],
               state |-> [c \in Conns |-> IF c = "s3" THEN "connecting" ELSE "authenticated"],
               rooms |-> [b \in Boards |-> IF b = "B1" THEN {"s1", "s2"} ELSE {}],
               pending |-> {},
               delivered |-> NoneDelivered,
               last |-> NoLast,
               committed |-> {}]
    /\ util = Unused
    /\ hook = Unused
    /\ board = Unused
    /\ sync = Unused
    /\ link = Unused
    /\ resp = Unused
    /\ cardsB = Unused
    /\ pair = Unused
    /\ reqs = Unused
    /\ txs = Unused
    /\ alloc = Unused
    /\ drag = Unused
    /\ client = Unused

relayUnused == <<resp, cardsB, pair, reqs, txs, alloc, drag, client,
    util, hook, board, sync, link>>

\* PATCH /api/cards/[id]/move run to completion; the route emits nothing
PatchMove(actor, id, dst, np) ==
    /\ cards' = MoveResult(cards, actor, id, dst, np)
    /\ sock' = [sock EXCEPT
           !.committed = IF MoveStatus(cards, actor, id, dst, np) = 200
                             THEN @ \cup {[cardId |-> id, destListId |-> dst,
                                           newPosition |-> np]}
                             ELSE @,
           !.delivered = NoneDelivered,
           !.last = [NoLast EXCEPT !.ev = "PATCH move"]]
    /\ UNCHANGED lists

\* PATCH /api/lists/[id]/reorder run to completion; the route emits nothing
PatchReorder(actor, id, np) ==
    /\ lists' = IF ReorderStatus(actor, id, np) = 200
                    THEN UpdateList(ShiftLists(lists, lists[id].boardId,
                                               lists[id].position, np), id, np)
                    ELSE lists
    /\ sock' = [sock EXCEPT
           !.committed = IF ReorderStatus(actor, id, np) = 200
                             THEN @ \cup {[listId |-> id, newPosition |-> np]}
                             ELSE @,
           !.delivered = NoneDelivered,
           !.last = [NoLast EXCEPT !.ev = "PATCH reorder"]]
    /\ UNCHANGED cards

RelayNext ==
    \/ \E r \in RelayMoves : PatchMove(r[1], r[2], r[3], r[4]) /\ UNCHANGED relayUnused
    \/ \E r \in RelayReorders : PatchReorder(r[1], r[2], r[3]) /\ UNCHANGED relayUnused
    \/ \E c \in Conns, b \in Boards, d \in MovedData :
        Publish(c, b, "card:moved", d) /\ UNCHANGED <<cards, lists>>
                                       /\ UNCHANGED relayUnused
    \/ \E c \in Conns, b \in Boards, d \in ReorderedData :
        Publish(c, b, "list:reordered", d) /\ UNCHANGED <<cards, lists>>
                                           /\ UNCHANGED relayUnused

SpecRelay == RelayInit /\ [][RelayNext]_vars

\* C16: a card:moved or list:reordered event that reaches a connection is
\* the event of a move or reorder the store had committed before it was sent.
C16_DeliveredEventsWereCommitted ==
    (/\ sock.last.ev \in {"card:moved", "list:reordered"}
     /\ \E c \in Conns : sock.delivered[c] # <<>>)
        => IF sock.last.ev = "card:moved"
               THEN [cardId |-> sock.last.data.cardId,
                     destListId |-> sock.last.data.destListId,
                     newPosition |-> sock.last.data.newPosition] \in sock.committed
               ELSE sock.last.data \in sock.committed

(***************************************************************************)
(* SpecClient: the board store of one browser (useBoardStore), fed by the  *)
(* card:moved events of useRealtimeBoard and by the user's own moves, next *)
(* to the Card table of the server.                                        *)
(***************************************************************************)
ClientCards == {"c1", "c2", "c3"}
ClientLists == {"L1", "L2"}

\* moves the server commits for other users while this browser is open
MaxCommits == 2

\* the largest newPosition handed to the store
MaxIndex == 3

\* fetchBoard: data.cards grouped by listId; a list without cards has no key
FetchBoard(cs, ls) ==
    [lists |-> <<[id |-> "L1", position |-> ls["L1"].position],
                 [id |-> "L2", position |-> ls["L2"].position]>>,
     cards |-> [l \in {k \in ClientLists : CardsOf(cs, k) # {}} |->
                   LET seq == CardSeq(cs, l)
                   IN  [i \in 1..Len(seq) |->
                           [id |-> seq[i], listId |-> l, position |-> cs[seq[i]].position]]]]

\* findIndex((x) => x.id === id), zero-based, -1 when absent
FindIndexById(seq, id) ==
    IF \E i \in 1..Len(seq) : seq[i].id = id
        THEN (CHOOSE i \in 1..Len(seq) :
                 seq[i].id = id /\ \A j \in 1..(i - 1) : seq[j].id # id) - 1
        ELSE -1

\* splice(index, 1)
RemoveAt(seq, index) == SubSeq(seq, 1, index) \o SubSeq(seq, index + 2, Len(seq))

\* forEach((x, index) => { x.position = index })
Renumber(seq) == [i \in 1..Len(seq) |-> [seq[i] EXCEPT !.position = i - 1]]

\* the list under whose key the card is found first, NoList when under none
ListHolding(cs, cardId) ==
    IF \E l \in DOMAIN cs : FindIndexById(cs[l], cardId) # -1
        THEN CHOOSE l \in DOMAIN cs : FindIndexById(cs[l], cardId) # -1
        ELSE NoList

\* moveCard leaving the card in its old place as well
moveCard_WithoutRemoval(st, cardId, newListId, newPosition) ==
    LET src == ListHolding(st.cards, cardId)
        card == [id |-> cardId, listId |-> newListId, position |-> newPosition]
        keyed == IF newListId \in DOMAIN st.cards
                     THEN st.cards ELSE st.cards @@ (newListId :> <<>>)
    IN  IF src = NoList THEN st
        ELSE [st EXCEPT !.cards =
                 [keyed EXCEPT ![newListId] = Renumber(SpliceIn(@, newPosition, card))]]

\* useBoardStore.moveCard
moveCard(st, cardId, newListId, newPosition) ==
    LET src == ListHolding(st.cards, cardId)
        removed == [st.cards EXCEPT
                       ![src] = RemoveAt(@, FindIndexById(@, cardId))]
        card == [id |-> cardId, listId |-> newListId, position |-> newPosition]
        keyed == IF newListId \in DOMAIN removed
                     THEN removed ELSE removed @@ (newListId :> <<>>)
    IN  IF src = NoList THEN st
        ELSE [st EXCEPT !.cards =
                 [keyed EXCEPT ![newListId] = Renumber(SpliceIn(@, newPosition, card))]]

\* useBoardStore.reorderList
reorderList(st, listId, newPosition) ==
    LET listIndex == FindIndexById(st.lists, listId)
    IN  IF listIndex = -1 THEN st
        ELSE [st EXCEPT !.lists =
                 Renumber(SpliceIn(RemoveAt(@, listIndex), newPosition, @[listIndex + 1]))]

\* where the store shows a card: the key of its list and its index there
Place(st, cardId) ==
    LET l == ListHolding(st.cards, cardId)
    IN  IF l = NoList THEN <<NoList, -1>> ELSE <<l, FindIndexById(st.cards[l], cardId)>>

NoEvent == [cardId |-> "none", destListId |-> NoList, newPosition |-> 0, seq |-> 0]

NoMove == [actor |-> NoUser, cardId |-> "none", destListId |-> NoList, newPosition |-> 0]

NoFailure == [happened |-> FALSE, serverBefore |-> <<>>]

ClientInit ==
    /\ cards = InitCards
    /\ lists = InitLists
    /\ client = [store |-> FetchBoard(InitCards, InitLists),
                 inflight |-> {},
                 seq |-> 0,
                 pending |-> NoMove,
                 snapshot |-> <<>>,
                 last |-> NoEvent,
                 prev |-> NoEvent,
                 prevPlace |-> <<NoList, -1>>,
                 again |-> FALSE,
                 viewBefore |-> <<>>,
                 viewChanged |-> FALSE,
                 failed |-> NoFailure]
    /\ util = Unused
    /\ hook = Unused
    /\ board = Unused
    /\ sync = Unused
    /\ link = Unused
    /\ resp = Unused
    /\ cardsB = Unused
    /\ pair = Unused
    /\ reqs = Unused
    /\ txs = Unused
    /\ alloc = Unused
    /\ drag = Unused
    /\ sock = Unused

clientUnused == <<lists, resp, cardsB, pair, reqs, txs, alloc, drag, sock,
    util, hook, board, sync, link>>

\* Another member's move commits; its card:moved event is on its way here.
RemoteMove(id, dst, np) ==
    /\ client.seq < MaxCommits
    /\ MoveStatus(cards, "u1", id, dst, np) = 200
    /\ cards' = MoveResult(cards, "u1", id, dst, np)
    /\ client' = [client EXCEPT
           !.seq = @ + 1,
           !.inflight = @ \cup {[cardId |-> id, destListId |-> dst,
                                 newPosition |-> np, seq |-> client.seq + 1]},
           !.again = FALSE,
           !.failed = NoFailure]

\* useRealtimeBoard: socket.on('card:moved'), events arriving in any order
ReceiveCardMoved(e) ==
    /\ e \in client.inflight
    /\ client' = [client EXCEPT
           !.store = moveCard(@, e.cardId, e.destListId, e.newPosition),
           !.inflight = @ \ {e},
           !.prev = client.last,
           !.prevPlace = IF client.last.cardId = "none" THEN <<NoList, -1>>
                         ELSE Place(client.store, client.last.cardId),
           !.last = e,
           !.again = FALSE,
           !.failed = NoFailure]
    /\ UNCHANGED cards

\* the same event handled a second time
ReceiveAgain ==
    /\ client.last # NoEvent
    /\ ~client.again
    /\ client' = [client EXCEPT
           !.store = moveCard(@, client.last.cardId, client.last.destListId,
                              client.last.newPosition),
           !.again = TRUE,
           !.failed = NoFailure]
    /\ UNCHANGED cards

\* the user drags a list: reorderList on the store
LocalReorder(listId, np) ==
    /\ client' = [client EXCEPT
           !.store = reorderList(@, listId, np),
           !.last = NoEvent, !.prev = NoEvent, !.prevPlace = <<NoList, -1>>,
           !.again = FALSE,
           !.failed = NoFailure]
    /\ UNCHANGED cards

\* the user drops a card: the store is changed at once, the view as it was
\* is kept, and the PATCH request goes out
BeginLocalMove(actor, id, dst, np) ==
    /\ client.pending = NoMove
    /\ client' = [client EXCEPT
           !.snapshot = client.store,
           !.viewBefore = client.store,
           !.viewChanged = moveCard(client.store, id, dst, np) # client.store,
           !.store = moveCard(@, id, dst, np),
           !.pending = [actor |-> actor, cardId |-> id, destListId |-> dst,
                        newPosition |-> np],
           !.last = NoEvent, !.prev = NoEvent, !.prevPlace = <<NoList, -1>>,
           !.again = FALSE,
           !.failed = NoFailure]
    /\ UNCHANGED cards

\* the PATCH handler runs and its response arrives: a failure puts the view
\* back as it was when the move began
LocalMoveResponse ==
    /\ client.pending # NoMove
    /\ LET m == client.pending
           st == MoveStatus(cards, m.actor, m.cardId, m.destListId, m.newPosition)
       IN  /\ cards' = MoveResult(cards, m.actor, m.cardId, m.destListId, m.newPosition)
           /\ client' = [client EXCEPT
                  !.store = IF st = 200 THEN @ ELSE client.snapshot,
                  !.pending = NoMove,
                  !.snapshot = <<>>,
                  !.last = NoEvent, !.prev = NoEvent, !.prevPlace = <<NoList, -1>>,
                  !.again = FALSE,
                  !.failed = IF st = 200 THEN NoFailure
                             ELSE [happened |-> TRUE, serverBefore |-> cards]]

ClientMoves == {"c1", "c2"} \X ClientLists \X {0, 1}

ClientNext ==
    \/ \E m \in ClientMoves : RemoteMove(m[1], m[2], m[3]) /\ UNCHANGED clientUnused
    \/ \E e \in client.inflight : ReceiveCardMoved(e) /\ UNCHANGED clientUnused
    \/ ReceiveAgain /\ UNCHANGED clientUnused
    \/ \E l \in ClientLists, np \in 0..MaxIndex :
        LocalReorder(l, np) /\ UNCHANGED clientUnused

SpecClient == ClientInit /\ [][ClientNext]_vars

(***************************************************************************)
(* SpecLocal: the same browser making its own moves, one request at a      *)
(* time; a request sent after the session has ended is turned down.        *)
(***************************************************************************)
LocalNext ==
    \/ \E a \in {"u1", NoUser}, m \in ClientMoves :
        BeginLocalMove(a, m[1], m[2], m[3]) /\ UNCHANGED clientUnused
    \/ LocalMoveResponse /\ UNCHANGED clientUnused

SpecLocal == ClientInit /\ [][LocalNext]_vars

\* C18: when two results for the same card are handled newest first, the
\* older one is dropped: the card stays in the list and at the place the
\* later-committed result gave it.
C18_OlderResultDiscarded ==
    (/\ client.last # NoEvent
     /\ client.prev # NoEvent
     /\ client.prev.cardId = client.last.cardId
     /\ client.prev.seq > client.last.seq)
        => Place(client.store, client.last.cardId) = client.prevPlace

\* C19: moveCard with the same card, list and newPosition, and reorderList
\* with the same list and newPosition, applied twice leave the store as one
\* application does, from every store state and for every newPosition up
\* to one past the end of the list.
C19_ApplyTwiceSameAsOnce ==
    /\ \A c \in ClientCards \cup {"c9"}, l \in ClientLists \cup {"L3"}, np \in 0..MaxIndex :
          moveCard(moveCard(client.store, c, l, np), c, l, np)
              = moveCard(client.store, c, l, np)
    /\ \A l \in ClientLists \cup {NoList}, np \in 0..MaxIndex :
          reorderList(reorderList(client.store, l, np), l, np)
              = reorderList(client.store, l, np)

\* an event with a newPosition past the end of its list was handled twice
C19_Witness ==
    /\ client.again
    /\ client.last.newPosition = 1
    /\ Place(client.store, client.last.cardId) = <<client.last.destListId, 0>>

C27_StorePositionsAreIndexes ==
    /\ \A l \in DOMAIN client.store.cards :
          \A i \in 1..Len(client.store.cards[l]) :
              client.store.cards[l][i].position = i - 1
    /\ \A i \in 1..Len(client.store.lists) : client.store.lists[i].position = i - 1

(***************************************************************************)
(* SpecItems: the array utility reorderItems on every bounded item list    *)
(* and every pair of indexes inside it.                                    *)
(***************************************************************************)

MaxItems == 3

ItemIds == 1..MaxItems

\* the position fields the items arrive with: anything, not only their index
ItemPositions == {0, 7}

\* the arrays of items with distinct ids, of every length up to MaxItems
ItemLists ==
    UNION {{seq \in [1..n -> [id : ItemIds, position : ItemPositions]] :
               \A i, j \in 1..n : i # j => seq[i].id # seq[j].id} : n \in 0..MaxItems}

\* reorderItems without the final map over the indexes
reorderItems_NotRenumbered(items, startIndex, endIndex) ==
    SpliceIn(RemoveAt(items, startIndex), endIndex, items[startIndex + 1])

\* reorderItems: copy, splice the item out, splice it in, renumber
reorderItems(items, startIndex, endIndex) ==
    Renumber(SpliceIn(RemoveAt(items, startIndex), endIndex, items[startIndex + 1]))

ItemsInit ==
    /\ cards = Unused
    /\ lists = Unused
    /\ resp = Unused
    /\ cardsB = Unused
    /\ pair = Unused
    /\ reqs = Unused
    /\ txs = Unused
    /\ alloc = Unused
    /\ drag = Unused
    /\ sock = Unused
    /\ client = Unused
    /\ hook = Unused
    /\ board = Unused
    /\ sync = Unused
    /\ link = Unused
    /\ \E items \in ItemLists :
          util = [items |-> items, called |-> FALSE, startIndex |-> 0, endIndex |-> 0,
                  result |-> <<>>]

itemsUnused == <<cards, lists, resp, cardsB, pair, reqs, txs, alloc, drag, sock, client,
    hook, board, sync, link>>

\* one call with indexes inside the array
Reorder(startIndex, endIndex) ==
    /\ ~util.called
    /\ startIndex \in 0..(Len(util.items) - 1)
    /\ endIndex \in 0..(Len(util.items) - 1)
    /\ util' = [util EXCEPT !.called = TRUE, !.startIndex = startIndex,
                            !.endIndex = endIndex,
                            !.result = reorderItems(util.items, startIndex, endIndex)]
    /\ UNCHANGED itemsUnused

ItemsNext == \E s, e \in 0..(MaxItems - 1) : Reorder(s, e)

SpecItems == ItemsInit /\ [][ItemsNext]_vars

\* the ids of an array, in its order
IdsOf(seq) == [i \in 1..Len(seq) |-> seq[i].id]

\* C23: for every item list and every startIndex and endIndex inside it,
\* reorderItems returns a permutation of the input, with the item that was
\* at startIndex now at endIndex, the other items in their old relative
\* order, and every item's position equal to its index.
C23_ReorderItemsPermutes ==
    util.called =>
        LET r == util.result
            it == util.items
        IN  /\ Len(r) = Len(it)
            /\ {r[i].id : i \in 1..Len(r)} = {it[i].id : i \in 1..Len(it)}
            /\ r[util.endIndex + 1].id = it[util.startIndex + 1].id
            /\ IdsOf(RemoveAt(r, util.endIndex)) = IdsOf(RemoveAt(it, util.startIndex))
            /\ \A i \in 1..Len(r) : r[i].position = i - 1

\* the first of three items, none of which was numbered by its index, was
\* moved to the end
C23_Witness ==
    /\ util.called
    /\ Len(util.items) = 3
    /\ util.startIndex = 0
    /\ util.endIndex = 2
    /\ \A i \in 1..3 : util.items[i].position = 7

(***************************************************************************)
(* SpecMirror: every card move is committed by PATCH (cards/[id]/move) on  *)
(* the Card table and applied by useBoardStore.moveCard to a store that    *)
(* was fetched from the same tables.                                       *)
(***************************************************************************)

\* moves made in one run
MaxMoves == 3

MirrorInit ==
    /\ cards = InitCards
    /\ lists = InitLists
    /\ client = [store |-> FetchBoard(InitCards, InitLists), moves |-> 0,
                 last |-> NoEvent]
    /\ resp = Unused
    /\ cardsB = Unused
    /\ pair = Unused
    /\ reqs = Unused
    /\ txs = Unused
    /\ alloc = Unused
    /\ drag = Unused
    /\ sock = Unused
    /\ util = Unused
    /\ hook = Unused
    /\ board = Unused
    /\ sync = Unused
    /\ link = Unused

mirrorUnused == <<lists, resp, cardsB, pair, reqs, txs, alloc, drag, sock,
    util, hook, board, sync, link>>

\* one move, committed by the endpoint and applied to the store
MirrorMove(id, dst, np) ==
    /\ client.moves < MaxMoves
    /\ MoveStatus(cards, "u1", id, dst, np) = 200
    /\ cards' = MoveResult(cards, "u1", id, dst, np)
    /\ client' = [store |-> moveCard(client.store, id, dst, np),
                  moves |-> client.moves + 1,
                  last |-> [cardId |-> id, destListId |-> dst, newPosition |-> np,
                            seq |-> client.moves + 1]]
    /\ UNCHANGED mirrorUnused

MirrorNext ==
    \E id \in ClientCards, dst \in ClientLists, np \in 0..MaxIndex : MirrorMove(id, dst, np)

SpecMirror == MirrorInit /\ [][MirrorNext]_vars

\* the ids under a list's key of the store, in array order
StoreOrder(st, l) == IF l \in DOMAIN st.cards THEN IdsOf(st.cards[l]) ELSE <<>>

\* C26: after every move of a sequence applied to both, the array order of
\* each list in the store is the position-sorted order of that list in the
\* Card table.
C26_StoreOrderFollowsServer ==
    \A l \in ClientLists : StoreOrder(client.store, l) = CardSeq(cards, l)

(***************************************************************************)
(* SpecHook: the hook useDragAndDrop over one board.  handleDragEnd runs   *)
(* up to its await in one step; the promise of the callback settles in a   *)
(* step of its own, resolved or rejected.                                  *)
(***************************************************************************)

\* the value null of activeId and overId, and of over in a drop on nothing
NoId == "null"

\* the props: lists with their cards, as fetched
HookLists == <<"L1", "L2">>

HookCards == DragInitCards

\* active.data.current.type and over.data.current.type
TypeOf(id) == IF id \in DragLists THEN "list" ELSE IF id \in DragCards THEN "card" ELSE "none"

NoCall == [fn |-> "none", id |-> NoId, to |-> NoId, newPosition |-> 0]

\* the callback handleDragEnd awaits for a drop of active on over, NoCall
\* when it awaits none
CallbackOf(active, over) ==
    IF over = NoId \/ active = over THEN NoCall
    ELSE IF TypeOf(active) = "list" /\ TypeOf(over) = "list"
        THEN IF FindIndex(HookLists, active) # -1 /\ FindIndex(HookLists, over) # -1
                  /\ FindIndex(HookLists, active) # FindIndex(HookLists, over)
                 THEN [fn |-> "onListReorder", id |-> active, to |-> NoId,
                       newPosition |-> FindIndex(HookLists, over)]
                 ELSE NoCall
    ELSE IF TypeOf(active) = "card" /\ TypeOf(over) \in {"list", "card"}
        THEN LET dst == IF TypeOf(over) = "list" THEN over ELSE HookCards[over].listId
                 np == IF TypeOf(over) = "list"
                           THEN Len(CardSeq(HookCards, dst))
                           ELSE FindIndex(CardSeq(HookCards, dst), over)
             IN  IF HookCards[active].listId # dst \/ HookCards[active].position # np
                     THEN [fn |-> "onCardMove", id |-> active, to |-> dst,
                           newPosition |-> np]
                     ELSE NoCall
    ELSE NoCall

HookInit ==
    /\ hook = [activeId |-> NoId, overId |-> NoId, pc |-> "idle", awaiting |-> NoCall,
               calls |-> 0, outcome |-> "none"]
    /\ cards = Unused
    /\ lists = Unused
    /\ resp = Unused
    /\ cardsB = Unused
    /\ pair = Unused
    /\ reqs = Unused
    /\ txs = Unused
    /\ alloc = Unused
    /\ drag = Unused
    /\ sock = Unused
    /\ client = Unused
    /\ util = Unused
    /\ board = Unused
    /\ sync = Unused
    /\ link = Unused

hookUnused == <<cards, lists, resp, cardsB, pair, reqs, txs, alloc, drag, sock, client,
    util, board, sync, link>>

\* handleDragStart: a drag begins
handleDragStart(active) ==
    /\ hook.pc \in {"idle", "ended"}
    /\ hook' = [hook EXCEPT !.activeId = active, !.pc = "dragging", !.awaiting = NoCall,
                            !.calls = 0, !.outcome = "none"]

\* handleDragOver
handleDragOver(over) ==
    /\ hook.pc = "dragging"
    /\ hook' = [hook EXCEPT !.overId = over]

\* handleDragEnd, to its end when it awaits nothing and to its await otherwise
handleDragEnd(over) ==
    /\ hook.pc = "dragging"
    /\ LET call == CallbackOf(hook.activeId, over)
       IN  hook' = IF call = NoCall
                       THEN [hook EXCEPT !.activeId = NoId, !.overId = NoId,
                                         !.pc = "ended", !.outcome = "no callback"]
                       ELSE [hook EXCEPT !.pc = "awaiting", !.awaiting = call,
                                         !.calls = @ + 1]

\* the awaited promise resolves: the rest of handleDragEnd runs
CallbackResolved ==
    /\ hook.pc = "awaiting"
    /\ hook' = [hook EXCEPT !.activeId = NoId, !.overId = NoId, !.pc = "ended",
                            !.outcome = "resolved"]

\* the awaited promise rejects: handleDragEnd ends at the await
CallbackRejected ==
    /\ hook.pc = "awaiting"
    /\ hook' = [hook EXCEPT !.pc = "ended", !.outcome = "rejected"]

\* handleDragCancel
handleDragCancel ==
    /\ hook.pc = "dragging"
    /\ hook' = [hook EXCEPT !.activeId = NoId, !.overId = NoId, !.pc = "ended",
                            !.outcome = "cancelled"]

HookNext ==
    \/ \E a \in DragLists \cup DragCards : handleDragStart(a) /\ UNCHANGED hookUnused
    \/ \E o \in DragLists \cup DragCards \cup {NoId} :
        handleDragOver(o) /\ UNCHANGED hookUnused
    \/ \E o \in DragLists \cup DragCards \cup {NoId} :
        handleDragEnd(o) /\ UNCHANGED hookUnused
    \/ CallbackResolved /\ UNCHANGED hookUnused
    \/ CallbackRejected /\ UNCHANGED hookUnused
    \/ handleDragCancel /\ UNCHANGED hookUnused

SpecHook == HookInit /\ [][HookNext]_vars

\* C29: once handleDragEnd or handleDragCancel has run, activeId and
\* overId are both null, whether the callback resolved or rejected, and
\* the drag has invoked at most one callback, once.
C29_DragEndsCleared ==
    hook.pc = "ended"
        => /\ hook.activeId = NoId
           /\ hook.overId = NoId
           /\ hook.calls <= 1

(***************************************************************************)
(* SpecKanban: the component KanbanBoard.  Its state is what useState      *)
(* holds; every handler runs to completion on the state of the latest      *)
(* render, and the handlers are called in any order.                       *)
(***************************************************************************)

\* values Date.now() takes while the board is open
MaxClock == 1

\* the columns the board starts from, with the tasks of each
KanbanColumns ==
    <<[id |-> "backlog", tasks |-> <<"1", "2">>],
      [id |-> "todo", tasks |-> <<"4">>]>>

NoDraggedTask == [task |-> NoId, sourceColumnId |-> NoId]

NoBoardOp == [op |-> "none", task |-> NoId, source |-> NoId, target |-> NoId,
              before |-> <<>>]

\* the ids of the tasks in the columns of the board
TasksOn(columns) ==
    UNION {{columns[i].tasks[j] : j \in 1..Len(columns[i].tasks)} : i \in 1..Len(columns)}

\* col.tasks.filter((t) => t.id !== taskId)
WithoutTask(tasks, taskId) == SelectSeq(tasks, LAMBDA t : t # taskId)

\* the updater of handleDrop: prevColumns.map over source and target
DropColumns(columns, task, sourceColumnId, targetColumnId) ==
    [i \in 1..Len(columns) |->
        IF columns[i].id = sourceColumnId
            THEN [columns[i] EXCEPT !.tasks = WithoutTask(@, task)]
        ELSE IF columns[i].id = targetColumnId
            THEN [columns[i] EXCEPT !.tasks = Append(@, task)]
        ELSE columns[i]]

KanbanInit ==
    /\ board = [columns |-> KanbanColumns,
                draggedTask |-> NoDraggedTask,
                dragOverColumnId |-> NoId,
                addCardColumnId |-> NoId,
                clock |-> 0,
                deleted |-> {},
                last |-> NoBoardOp]
    /\ cards = Unused
    /\ lists = Unused
    /\ resp = Unused
    /\ cardsB = Unused
    /\ pair = Unused
    /\ reqs = Unused
    /\ txs = Unused
    /\ alloc = Unused
    /\ drag = Unused
    /\ sock = Unused
    /\ client = Unused
    /\ util = Unused
    /\ hook = Unused
    /\ sync = Unused
    /\ link = Unused

kanbanUnused == <<cards, lists, resp, cardsB, pair, reqs, txs, alloc, drag, sock, client,
    util, hook, sync, link>>

\* handleDragStart, called by the card of a task shown in a column
KanbanDragStart(i, j) ==
    /\ i \in 1..Len(board.columns)
    /\ j \in 1..Len(board.columns[i].tasks)
    /\ board' = [board EXCEPT
           !.draggedTask = [task |-> board.columns[i].tasks[j],
                            sourceColumnId |-> board.columns[i].id],
           !.last = NoBoardOp]

\* handleDragOver, called by a column on the board
KanbanDragOver(i) ==
    /\ i \in 1..Len(board.columns)
    /\ board' = [board EXCEPT !.dragOverColumnId = board.columns[i].id,
                             !.last = NoBoardOp]

\* handleDrop, called by a column on the board
KanbanDrop(i) ==
    /\ i \in 1..Len(board.columns)
    /\ LET target == board.columns[i].id
           dt == board.draggedTask
       IN  board' =
               IF dt = NoDraggedTask
                   THEN [board EXCEPT !.last = NoBoardOp]
               ELSE IF dt.sourceColumnId = target
                   THEN [board EXCEPT
                            !.draggedTask = NoDraggedTask,
                            !.dragOverColumnId = NoId,
                            !.last = [op |-> "drop", task |-> dt.task,
                                      source |-> dt.sourceColumnId, target |-> target,
                                      before |-> board.columns]]
               ELSE [board EXCEPT
                        !.columns = DropColumns(@, dt.task, dt.sourceColumnId, target),
                        !.draggedTask = NoDraggedTask,
                        !.dragOverColumnId = NoId,
                        !.last = [op |-> "drop", task |-> dt.task,
                                  source |-> dt.sourceColumnId, target |-> target,
                                  before |-> board.columns]]

\* handleDragEnd
KanbanDragEnd ==
    board' = [board EXCEPT !.draggedTask = NoDraggedTask, !.dragOverColumnId = NoId,
                           !.last = NoBoardOp]

\* handleOpenAddCard, called by a column on the board
KanbanOpenAddCard(i) ==
    /\ i \in 1..Len(board.columns)
    /\ board' = [board EXCEPT !.addCardColumnId = board.columns[i].id,
                             !.last = NoBoardOp]

\* handleAddCard with a title typed in; Date.now() has moved on since the
\* last id was made
KanbanAddCard ==
    /\ board.addCardColumnId # NoId
    /\ board.clock < MaxClock
    /\ LET newTask == "task-" \o ToString(board.clock + 1)
       IN  board' = [board EXCEPT
               !.columns = [i \in 1..Len(@) |->
                               IF @[i].id = board.addCardColumnId
                                   THEN [@[i] EXCEPT !.tasks = Append(@, newTask)]
                                   ELSE @[i]],
               !.addCardColumnId = NoId,
               !.clock = @ + 1,
               !.last = NoBoardOp]

\* handleAddList with a title typed in
KanbanAddList ==
    /\ board.clock < MaxClock
    /\ board' = [board EXCEPT
           !.columns = Append(@, [id |-> "list-" \o ToString(board.clock + 1),
                                  tasks |-> <<>>]),
           !.clock = @ + 1,
           !.last = NoBoardOp]

\* handleDeleteCard, called by the card of a task shown in a column
KanbanDeleteCard(i, j) ==
    /\ i \in 1..Len(board.columns)
    /\ j \in 1..Len(board.columns[i].tasks)
    /\ LET taskId == board.columns[i].tasks[j]
       IN  board' = [board EXCEPT
               !.columns = [@ EXCEPT ![i].tasks = WithoutTask(@, taskId)],
               !.deleted = @ \cup {taskId},
               !.last = NoBoardOp]

\* handleDeleteList, called by a column on the board
KanbanDeleteList(i) ==
    /\ i \in 1..Len(board.columns)
    /\ board' = [board EXCEPT
           !.columns = SelectSeq(@, LAMBDA col : col.id # board.columns[i].id),
           !.deleted = @ \cup {board.columns[i].tasks[j] :
                                   j \in 1..Len(board.columns[i].tasks)},
           !.last = NoBoardOp]

\* the most columns and the most tasks in a column the board can come to
MostColumns == Len(KanbanColumns) + MaxClock

MostTasks == 3 + MaxClock

KanbanNext ==
    \/ \E i \in 1..MostColumns, j \in 1..MostTasks :
        KanbanDragStart(i, j) /\ UNCHANGED kanbanUnused
    \/ \E i \in 1..MostColumns : KanbanDragOver(i) /\ UNCHANGED kanbanUnused
    \/ \E i \in 1..MostColumns : KanbanDrop(i) /\ UNCHANGED kanbanUnused
    \/ KanbanDragEnd /\ UNCHANGED kanbanUnused
    \/ \E i \in 1..MostColumns : KanbanOpenAddCard(i) /\ UNCHANGED kanbanUnused
    \/ KanbanAddCard /\ UNCHANGED kanbanUnused
    \/ KanbanAddList /\ UNCHANGED kanbanUnused
    \/ \E i \in 1..MostColumns, j \in 1..MostTasks :
        KanbanDeleteCard(i, j) /\ UNCHANGED kanbanUnused
    \/ \E i \in 1..MostColumns : KanbanDeleteList(i) /\ UNCHANGED kanbanUnused

SpecKanban == KanbanInit /\ [][KanbanNext]_vars

\* how often a task id occurs on the board
Occurrences(columns, t) ==
    Cardinality({<<i, j>> \in (1..Len(columns)) \X (1..MostTasks) :
                    j <= Len(columns[i].tasks) /\ columns[i].tasks[j] = t})

\* C30: in every order of drag-start, drop, drag-end, add-card, delete-card
\* and delete-list, a drop leaves the set of tasks on the board as it was; a
\* drop on another column takes the task out of its source column and puts
\* it at the end of the target column; a drop on the source column changes
\* nothing; no task id is on the board twice; a deleted task is not on it.
C30_DropKeepsTasks ==
    /\ board.last.op = "drop" =>
          /\ TasksOn(board.columns) = TasksOn(board.last.before)
          /\ board.columns =
                IF board.last.source = board.last.target
                    THEN board.last.before
                    ELSE [i \in 1..Len(board.last.before) |->
                            IF board.last.before[i].id = board.last.source
                                THEN [board.last.before[i] EXCEPT
                                         !.tasks = WithoutTask(@, board.last.task)]
                            ELSE IF board.last.before[i].id = board.last.target
                                THEN [board.last.before[i] EXCEPT
                                         !.tasks = Append(@, board.last.task)]
                            ELSE board.last.before[i]]
    /\ \A t \in TasksOn(board.columns) : Occurrences(board.columns, t) = 1
    /\ board.deleted \cap TasksOn(board.columns) = {}

(***************************************************************************)
(* SpecLink: one browser showing board B1 through useRealtimeBoard, its    *)
(* socket from getSocket, and the room board:B1 on the server.  Every       *)
(* connection of the browser is a new socket on the server, which starts   *)
(* in no room; emits made while the connection is down wait in the         *)
(* client's send buffer.                                                   *)
(***************************************************************************)

\* times the connection drops
MaxDrops == 3

\* events other members publish to the room after a reconnect
MaxEvents == 4

\* the server's handling of what the client emits, in order, for socket sid
RECURSIVE RoomAfter(_, _, _)
RoomAfter(room, sid, emits) ==
    IF emits = <<>> THEN room
    ELSE RoomAfter(IF Head(emits) = "board:join" THEN room \cup {sid}
                   ELSE room \ {sid}, sid, Tail(emits))

\* the state after the effect of useRealtimeBoard has run on a connected
\* socket: board:join has been handled
LinkInit ==
    /\ link = [state |-> "connected", sid |-> 1, room |-> {1}, sendBuffer |-> <<>>,
               drops |-> 0, published |-> 0, received |-> 0]
    /\ cards = Unused
    /\ lists = Unused
    /\ resp = Unused
    /\ cardsB = Unused
    /\ pair = Unused
    /\ reqs = Unused
    /\ txs = Unused
    /\ alloc = Unused
    /\ drag = Unused
    /\ sock = Unused
    /\ client = Unused
    /\ util = Unused
    /\ hook = Unused
    /\ board = Unused
    /\ sync = Unused

linkUnused == <<cards, lists, resp, cardsB, pair, reqs, txs, alloc, drag, sock, client,
    util, hook, board, sync>>

\* the connection drops: the server takes the socket out of its rooms, the
\* client's 'disconnect' handler logs
LinkDrop ==
    /\ link.state = "connected"
    /\ link.drops < MaxDrops
    /\ link' = [link EXCEPT !.state = "dropped", !.room = @ \ {link.sid},
                            !.drops = @ + 1]

\* the client connects again: a new socket passes the middleware, the
\* 'connect' handler of getSocket logs, the send buffer is flushed
LinkReconnect ==
    /\ link.state = "dropped"
    /\ link' = [link EXCEPT !.state = "connected", !.sid = @ + 1,
                            !.room = RoomAfter(@, link.sid + 1, link.sendBuffer),
                            !.sendBuffer = <<>>,
                            !.published = 0, !.received = 0]

\* another member of the room emits card:moved for B1: socket.to(room).emit
LinkPublish ==
    /\ link.published < MaxEvents
    /\ link' = [link EXCEPT
           !.published = @ + 1,
           !.received = IF link.state = "connected" /\ link.sid \in link.room
                            THEN @ + 1 ELSE @]

\* a dependency of the effect changes: the cleanup emits board:leave and
\* the effect emits board:join
EffectRerun ==
    /\ Len(link.sendBuffer) = 0
    /\ link' = IF link.state = "connected"
                   THEN [link EXCEPT
                            !.room = RoomAfter(@, link.sid, <<"board:leave", "board:join">>)]
                   ELSE [link EXCEPT !.sendBuffer = <<"board:leave", "board:join">>]

LinkNext ==
    \/ LinkDrop /\ UNCHANGED linkUnused
    \/ LinkReconnect /\ UNCHANGED linkUnused
    \/ LinkPublish /\ UNCHANGED linkUnused
    \/ EffectRerun /\ UNCHANGED linkUnused

SpecLink == LinkInit /\ [][LinkNext]_vars

\* C22: a client whose connection dropped and came back is in the room of
\* its board again, and has received every event published to the room
\* since it came back.
C22_ReconnectedClientRejoins ==
    (link.drops > 0 /\ link.state = "connected")
        => /\ link.sid \in link.room
           /\ link.received = link.published

(***************************************************************************)
(* SpecSync: two browsers on board B1, each with a store fetched from the  *)
(* tables and each in the room board:B1.  A browser that makes a move      *)
(* changes its own store, the endpoint commits the move, and the event of  *)
(* the move goes through the socket server to the other browser, which     *)
(* handles it with the handlers useRealtimeBoard has registered.           *)
(***************************************************************************)
Browsers == {"k1", "k2"}

\* moves and reorders the two browsers make in one run
MaxSubmits == 2

\* the lists of a board, orderBy position asc
RECURSIVE SortListsByPosition(_, _)
SortListsByPosition(ls, S) ==
    IF S = {} THEN <<>>
    ELSE LET m == CHOOSE l \in S : \A k \in S : ls[l].position <= ls[k].position
         IN  <<m>> \o SortListsByPosition(ls, S \ {m})

ListSeq(ls, b) == SortListsByPosition(ls, ListsOf(ls, b))

\* the handlers useRealtimeBoard registers, applied to one event: there is
\* one for card:moved and none for list:reordered
HandleEvent(st, e) ==
    IF e.ev = "card:moved"
        THEN moveCard(st, e.data.cardId, e.data.destListId, e.data.newPosition)
        ELSE st

SyncInit ==
    /\ cards = InitCards
    /\ lists = InitLists
    /\ sync = [store |-> [k \in Browsers |-> FetchBoard(InitCards, InitLists)],
               queue |-> [k \in Browsers |-> <<>>],
               submits |-> 0]
    /\ resp = Unused
    /\ cardsB = Unused
    /\ pair = Unused
    /\ reqs = Unused
    /\ txs = Unused
    /\ alloc = Unused
    /\ drag = Unused
    /\ sock = Unused
    /\ client = Unused
    /\ util = Unused
    /\ hook = Unused
    /\ board = Unused
    /\ link = Unused

syncUnused == <<resp, cardsB, pair, reqs, txs, alloc, drag, sock, client,
    util, hook, board, link>>

\* socket.to(room).emit from browser k: the event joins the queue of the
\* other browser
RelayFrom(queue, k, e) ==
    [j \in Browsers |-> IF j = k THEN queue[j] ELSE Append(queue[j], e)]

\* browser k moves a card: its store, the endpoint, the card:moved event
SubmitMove(k, id, dst, np) ==
    /\ sync.submits < MaxSubmits
    /\ MoveStatus(cards, "u1", id, dst, np) = 200
    /\ cards' = MoveResult(cards, "u1", id, dst, np)
    /\ sync' = [sync EXCEPT
           !.store[k] = moveCard(@, id, dst, np),
           !.queue = RelayFrom(@, k, [ev |-> "card:moved",
                                      data |-> [cardId |-> id, destListId |-> dst,
                                                newPosition |-> np]]),
           !.submits = @ + 1]
    /\ UNCHANGED lists

\* browser k moves a list: its store, the endpoint, the list:reordered event
SubmitReorder(k, id, np) ==
    /\ sync.submits < MaxSubmits
    /\ ReorderStatus("u1", id, np) = 200
    /\ lists' = UpdateList(ShiftLists(lists, lists[id].boardId, lists[id].position, np),
                           id, np)
    /\ sync' = [sync EXCEPT
           !.store[k] = reorderList(@, id, np),
           !.queue = RelayFrom(@, k, [ev |-> "list:reordered",
                                      data |-> [listId |-> id, newPosition |-> np]]),
           !.submits = @ + 1]
    /\ UNCHANGED cards

\* the next event relayed to browser k arrives
Deliver(k) ==
    /\ sync.queue[k] # <<>>
    /\ sync' = [sync EXCEPT
           !.store[k] = HandleEvent(@, Head(sync.queue[k])),
           !.queue[k] = Tail(@)]
    /\ UNCHANGED <<cards, lists>>

SyncNext ==
    \/ \E k \in Browsers, m \in ClientMoves :
        SubmitMove(k, m[1], m[2], m[3]) /\ UNCHANGED syncUnused
    \/ \E k \in Browsers, l \in ClientLists, np \in {0, 1} :
        SubmitReorder(k, l, np) /\ UNCHANGED syncUnused
    \/ \E k \in Browsers : Deliver(k) /\ UNCHANGED syncUnused

SpecSync == SyncInit /\ [][SyncNext]_vars

\* C21: when every move and reorder made has committed and every event has
\* arrived, each browser shows the lists of the board, and the cards of
\* each list, in the position-sorted order of the tables.
C21_QuietBrowsersShowStoreOrder ==
    (\A k \in Browsers : sync.queue[k] = <<>>)
        => \A k \in Browsers :
              /\ IdsOf(sync.store[k].lists) = ListSeq(lists, "B1")
              /\ \A l \in ClientLists : StoreOrder(sync.store[k], l) = CardSeq(cards, l)

====
